---- MODULE Spec2Model ----
(***************************************************************************)
(* The tokenizer generateStack and the recursive-descent parser parseStack *)
(* of src/parser.js, driven as JsonParserTester.runTest drives them.       *)
(*                                                                         *)
(* A JavaScript string is a sequence of characters; a character is a TLA+  *)
(* string of one character, or a bracketed name for one that TLA+ cannot   *)
(* write ("<BS>" backspace, "<VT>" vertical tab, "<NBSP>" no-break space,  *)
(* "<U+n>" the code unit n).  A token is a JavaScript string, so a         *)
(* sequence of characters; undefined (a read past the end of the token     *)
(* array) is UNDEFINED.                                                    *)
(***************************************************************************)
EXTENDS Integers, Sequences, FiniteSets, TLC

(***************************************************************************)
(* Characters and the module-level tables of src/parser.js                 *)
(***************************************************************************)
QUOTE == "\""
BACKSLASH == "\\"
BS == "<BS>"
VT == "<VT>"
NBSP == "<NBSP>"
NUL == "<U+0>"
US == "<U+31>"

structuralToken == {"{", "}", "[", "]", ":", ","}

whitespaces == {"\t", "\n", "\r", " "}

escapeMap ==
  [c \in {"n", "t", "b", "r", "f", BACKSLASH, QUOTE, "/"} |->
     CASE c = "n" -> "\n"
       [] c = "t" -> "\t"
       [] c = "b" -> BS
       [] c = "r" -> "\r"
       [] c = "f" -> "\f"
       [] c = BACKSLASH -> BACKSLASH
       [] c = QUOTE -> QUOTE
       [] c = "/" -> "/"]

MAX_DEPTH == 20

\* the character class with its upper end one short, [\u0000-\u001E]
ControlCharsTo1E == {NUL, BS, "\t", "\n", VT, "\f", "\r"}

\* /[\u0000-\u001F]/ restricted to the control characters the model writes: both
\* ends of the range and the characters with a short escape
ControlChars == {NUL, BS, "\t", "\n", VT, "\f", "\r", US}

\* the characters String.prototype.trim removes, among those the model writes
TrimChars == {"\t", "\n", "\r", " ", "\f", VT, NBSP}

\* the line terminators the regular-expression dot does not match
LineTerminators == {"\n", "\r"}

Digits == {"0", "1", "2", "3", "4", "5", "6", "7", "8", "9"}

HexDigits == Digits \cup {"a", "b", "c", "d", "e", "f", "A", "B", "C", "D", "E", "F"}

DigitVal(c) ==
  CASE c = "0" -> 0 [] c = "1" -> 1 [] c = "2" -> 2 [] c = "3" -> 3 [] c = "4" -> 4
    [] c = "5" -> 5 [] c = "6" -> 6 [] c = "7" -> 7 [] c = "8" -> 8 [] c = "9" -> 9

HexVal(c) ==
  CASE c \in Digits -> DigitVal(c)
    [] c \in {"a", "A"} -> 10 [] c \in {"b", "B"} -> 11 [] c \in {"c", "C"} -> 12
    [] c \in {"d", "D"} -> 13 [] c \in {"e", "E"} -> 14 [] c \in {"f", "F"} -> 15

\* parseInt(unicode, 16) of four hexadecimal digits
ParseInt16(h) == ((HexVal(h[1]) * 16 + HexVal(h[2])) * 16 + HexVal(h[3])) * 16 + HexVal(h[4])

\* the code units the model writes as a character of their own
CodeTable ==
  [n \in {8, 9, 10, 11, 12, 13, 32, 34, 47, 48, 49, 65, 92, 97, 110, 117, 120, 160} |->
     CASE n = 8 -> BS [] n = 9 -> "\t" [] n = 10 -> "\n" [] n = 11 -> VT
       [] n = 12 -> "\f" [] n = 13 -> "\r" [] n = 32 -> " " [] n = 34 -> QUOTE
       [] n = 47 -> "/" [] n = 48 -> "0" [] n = 49 -> "1" [] n = 65 -> "A"
       [] n = 92 -> BACKSLASH [] n = 97 -> "a" [] n = 110 -> "n" [] n = 117 -> "u"
       [] n = 120 -> "x" [] n = 160 -> NBSP]

\* String.fromCharCode(n)
FromCharCode(n) ==
  IF n \in DOMAIN CodeTable THEN CodeTable[n] ELSE "<U+" \o ToString(n) \o ">"

\* data.slice(from, to) with 0-based bounds, clipped to the string as slice does
Slice(s, from, to) ==
  LET hi == IF to > Len(s) THEN Len(s) ELSE to
  IN IF from >= hi THEN <<>> ELSE SubSeq(s, from + 1, hi)

\* /^[0-9a-fA-F]{4}$/.test(s)
IsHex4(s) == Len(s) = 4 /\ \A k \in 1..4 : s[k] \in HexDigits

RECURSIVE TrimLeft(_)
TrimLeft(s) ==
  IF s # <<>> /\ Head(s) \in TrimChars THEN TrimLeft(Tail(s)) ELSE s

RECURSIVE TrimRight(_)
TrimRight(s) ==
  IF s # <<>> /\ s[Len(s)] \in TrimChars THEN TrimRight(SubSeq(s, 1, Len(s) - 1)) ELSE s

\* String.prototype.trim
Trim(s) == TrimRight(TrimLeft(s))

(***************************************************************************)
(* generateStack: the state of its loop, one iteration, and the whole call *)
(***************************************************************************)
LexInit ==
  [i |-> 0, stack |-> <<>>, valueToken |-> <<>>, startValueToken |-> FALSE,
   isEscaped |-> FALSE, err |-> "none"]

\* LexEscape with the skip after a Unicode escape one character short
LexEscapeShortSkip(data, s, element) ==
  IF element \in DOMAIN escapeMap
    THEN [s EXCEPT !.valueToken = Append(@, escapeMap[element]),
                   !.isEscaped = FALSE, !.i = @ + 1]
  ELSE IF element = "u"
    THEN LET unicode == Slice(data, s.i + 1, s.i + 5)
         IN IF ~IsHex4(unicode)
              THEN [s EXCEPT !.err = "InvalidUnicodeEscape"]
              ELSE [s EXCEPT !.valueToken = Append(@, FromCharCode(ParseInt16(unicode))),
                             !.isEscaped = FALSE, !.i = @ + 4]
  ELSE [s EXCEPT !.err = "IllegalEscape"]

\* the escape branch of the loop body, lines 72-91
LexEscape(data, s, element) ==
  IF element \in DOMAIN escapeMap
    THEN [s EXCEPT !.valueToken = Append(@, escapeMap[element]),
                   !.isEscaped = FALSE, !.i = @ + 1]
  ELSE IF element = "u"
    THEN LET unicode == Slice(data, s.i + 1, s.i + 5)
         IN IF ~IsHex4(unicode)
              THEN [s EXCEPT !.err = "InvalidUnicodeEscape"]
              ELSE [s EXCEPT !.valueToken = Append(@, FromCharCode(ParseInt16(unicode))),
                             !.isEscaped = FALSE, !.i = @ + 5]
  ELSE [s EXCEPT !.err = "IllegalEscape"]

\* one iteration that skips whitespace wherever it stands, inside a string too
LexStepSkipsWhitespace(data, s) ==
  LET element == data[s.i + 1]
  IN IF element \in whitespaces
       THEN [s EXCEPT !.i = @ + 1]
     ELSE IF element = QUOTE /\ ~s.isEscaped
       THEN IF ~s.startValueToken
              THEN [s EXCEPT !.startValueToken = TRUE, !.valueToken = <<QUOTE>>, !.i = @ + 1]
              ELSE [s EXCEPT !.stack = Append(@, Append(s.valueToken, QUOTE)),
                             !.valueToken = <<>>, !.startValueToken = FALSE, !.i = @ + 1]
     ELSE IF s.startValueToken
       THEN IF s.isEscaped
              THEN LexEscape(data, s, element)
            ELSE IF element = BACKSLASH
              THEN [s EXCEPT !.isEscaped = TRUE, !.i = @ + 1]
            ELSE IF element \in ControlChars
              THEN [s EXCEPT !.err = "ControlCharacter"]
            ELSE [s EXCEPT !.valueToken = Append(@, element), !.i = @ + 1]
     ELSE IF element \in structuralToken
       THEN [s EXCEPT !.stack = (IF s.valueToken # <<>>
                                   THEN Append(@, Trim(s.valueToken))
                                   ELSE @) \o << <<element>> >>,
                      !.valueToken = <<>>, !.i = @ + 1]
     ELSE [s EXCEPT !.valueToken = Append(@, element), !.i = @ + 1]

\* one iteration of the for loop, lines 48-114, the i++ included
LexStep(data, s) ==
  LET element == data[s.i + 1]
  IN IF ~s.startValueToken /\ element \in whitespaces
       THEN [s EXCEPT !.i = @ + 1]
     ELSE IF element = QUOTE /\ ~s.isEscaped
       THEN IF ~s.startValueToken
              THEN [s EXCEPT !.startValueToken = TRUE, !.valueToken = <<QUOTE>>, !.i = @ + 1]
              ELSE [s EXCEPT !.stack = Append(@, Append(s.valueToken, QUOTE)),
                             !.valueToken = <<>>, !.startValueToken = FALSE, !.i = @ + 1]
     ELSE IF s.startValueToken
       THEN IF s.isEscaped
              THEN LexEscape(data, s, element)
            ELSE IF element = BACKSLASH
              THEN [s EXCEPT !.isEscaped = TRUE, !.i = @ + 1]
            ELSE IF element \in ControlChars
              THEN [s EXCEPT !.err = "ControlCharacter"]
            ELSE [s EXCEPT !.valueToken = Append(@, element), !.i = @ + 1]
     ELSE IF element \in structuralToken
       THEN [s EXCEPT !.stack = (IF s.valueToken # <<>>
                                   THEN Append(@, Trim(s.valueToken))
                                   ELSE @) \o << <<element>> >>,
                      !.valueToken = <<>>, !.i = @ + 1]
     ELSE [s EXCEPT !.valueToken = Append(@, element), !.i = @ + 1]

RECURSIVE LexLoop(_, _)
LexLoop(data, s) ==
  IF s.err # "none" \/ s.i >= Len(data) THEN s ELSE LexLoop(data, LexStep(data, s))

\* generateStack without the check for a string still open after the loop
generateStackNoEndCheck(data) ==
  LET s == LexLoop(data, LexInit)
  IN IF s.err # "none" THEN [err |-> s.err, stack |-> <<>>]
     ELSE [err |-> "none", stack |-> s.stack]

\* generateStack(data): the loop, then the unterminated-string check of lines 116-121
generateStack(data) ==
  LET s == LexLoop(data, LexInit)
  IN IF s.err # "none" THEN [err |-> s.err, stack |-> <<>>]
     ELSE IF s.startValueToken THEN [err |-> "UnterminatedString", stack |-> <<>>]
     ELSE [err |-> "none", stack |-> s.stack]


(***************************************************************************)
(* Values parseStack builds.  Every value is a record of one shape:        *)
(* t the type, m and e a number as m * 10^e, s a string or an entry's key, *)
(* items an array's elements, an object's own entries in property order,   *)
(* or an entry's one value.                                                *)
(***************************************************************************)
VNull == [t |-> "null", m |-> 0, e |-> 0, s |-> <<>>, items |-> <<>>]

VBool(b) == [t |-> IF b THEN "true" ELSE "false", m |-> 0, e |-> 0, s |-> <<>>, items |-> <<>>]

VNum(m, e) == [t |-> "number", m |-> m, e |-> e, s |-> <<>>, items |-> <<>>]

VStr(s) == [t |-> "string", m |-> 0, e |-> 0, s |-> s, items |-> <<>>]

VArr(items) == [t |-> "array", m |-> 0, e |-> 0, s |-> <<>>, items |-> items]

VObj(entries) == [t |-> "object", m |-> 0, e |-> 0, s |-> <<>>, items |-> entries]

VEntry(key, v) == [t |-> "entry", m |-> 0, e |-> 0, s |-> key, items |-> <<v>>]

\* the property name whose assignment on a plain object runs the inherited
\* Object.prototype.__proto__ setter instead of creating an own property
PROTO == <<"_", "_", "p", "r", "o", "t", "o", "_", "_">>

\* obj[key] = value on an object literal: overwrite in place, or add last
ObjPut(entries, key, v) ==
  IF key = PROTO THEN entries
  ELSE IF \E k \in 1..Len(entries) : entries[k].s = key
    THEN [k \in 1..Len(entries) |->
            IF entries[k].s = key THEN VEntry(key, v) ELSE entries[k]]
  ELSE Append(entries, VEntry(key, v))

(***************************************************************************)
(* Tokens                                                                  *)
(***************************************************************************)
UNDEFINED == <<"<undefined>">>

LBRACE == <<"{">>
RBRACE == <<"}">>
LBRACKET == <<"[">>
RBRACKET == <<"]">>
COLON == <<":">>
COMMA == <<",">>
TRUE_TOKEN == <<"t", "r", "u", "e">>
FALSE_TOKEN == <<"f", "a", "l", "s", "e">>
NULL_TOKEN == <<"n", "u", "l", "l">>

\* tokens[i], 0-based, undefined past the end
TokAt(toks, i) == IF i < Len(toks) THEN toks[i + 1] ELSE UNDEFINED

RECURSIVE SkipDigits(_, _)
\* the first position at or after p of s that holds no digit
SkipDigits(s, p) ==
  IF p <= Len(s) /\ s[p] \in Digits THEN SkipDigits(s, p + 1) ELSE p

\* the positions where the parts of /^-?(0|[1-9]\d*)(\.\d+)?(e[+-]?\d+)?$/i end in s:
\* ok says whether the whole of s matches
NumberParts(s) ==
  LET p0 == IF Len(s) >= 1 /\ s[1] = "-" THEN 2 ELSE 1
      intOk == p0 <= Len(s) /\ s[p0] \in Digits
      p1 == IF intOk /\ s[p0] = "0" THEN p0 + 1 ELSE SkipDigits(s, p0)
      hasFrac == p1 + 1 <= Len(s) /\ s[p1] = "." /\ s[p1 + 1] \in Digits
      p2 == IF hasFrac THEN SkipDigits(s, p1 + 1) ELSE p1
      isE == p2 <= Len(s) /\ s[p2] \in {"e", "E"}
      p3 == IF isE /\ p2 + 1 <= Len(s) /\ s[p2 + 1] \in {"+", "-"} THEN p2 + 2 ELSE p2 + 1
      hasExp == isE /\ p3 <= Len(s) /\ s[p3] \in Digits
      p4 == IF hasExp THEN SkipDigits(s, p3) ELSE p2
  IN [ok |-> intOk /\ p4 = Len(s) + 1, neg |-> p0 = 2, p0 |-> p0, p1 |-> p1,
      hasFrac |-> hasFrac, p2 |-> p2, hasExp |-> hasExp, p3 |-> p3,
      expNeg |-> hasExp /\ s[p3 - 1] = "-"]

\* the numeric-token test with a leading '+' allowed as well as a leading '-'
IsNumberTokenAnySign(tok) ==
  /\ tok # UNDEFINED
  /\ \/ NumberParts(tok).ok
     \/ Len(tok) >= 1 /\ tok[1] = "+" /\ NumberParts(Tail(tok)).ok

\* the numeric-token test of parseValue, line 178
IsNumberToken(tok) == tok # UNDEFINED /\ NumberParts(tok).ok

RECURSIVE DigitsVal(_, _, _, _)
\* the number written by the digits s[from..to-1], continuing acc
DigitsVal(s, from, to, acc) ==
  IF from >= to THEN acc ELSE DigitsVal(s, from + 1, to, acc * 10 + DigitVal(s[from]))

RECURSIVE Normalise(_, _)
\* m * 10^e with the trailing zeros of m moved into e: one record per number
Normalise(m, e) ==
  IF m = 0 THEN VNum(0, 0)
  ELSE IF m % 10 = 0 THEN Normalise(m \div 10, e + 1)
  ELSE VNum(m, e)

\* parseFloat(token) of a token the numeric test accepted
ParseFloat(tok) ==
  LET np == NumberParts(tok)
      int == DigitsVal(tok, np.p0, np.p1, 0)
      mant == IF np.hasFrac THEN DigitsVal(tok, np.p1 + 1, np.p2, int) ELSE int
      fracLen == IF np.hasFrac THEN np.p2 - np.p1 - 1 ELSE 0
      ex == IF np.hasExp THEN DigitsVal(tok, np.p3, Len(tok) + 1, 0) ELSE 0
  IN Normalise(IF np.neg THEN 0 - mant ELSE mant,
               (IF np.expNeg THEN 0 - ex ELSE ex) - fracLen)

RECURSIVE ReplaceUnicode(_)
\* content.replace(/\\u([0-9a-fA-F]{4})/g, String.fromCharCode(parseInt(grp, 16)))
ReplaceUnicode(c) ==
  IF c = <<>> THEN <<>>
  ELSE IF Len(c) >= 6 /\ c[1] = BACKSLASH /\ c[2] = "u" /\ IsHex4(SubSeq(c, 3, 6))
    THEN <<FromCharCode(ParseInt16(SubSeq(c, 3, 6)))>> \o ReplaceUnicode(SubSeq(c, 7, Len(c)))
  ELSE <<Head(c)>> \o ReplaceUnicode(Tail(c))

RECURSIVE ReplaceEscapes(_)
\* content.replace(/\\(.)/g, ...): the mapped character for each backslash pair, or
\* the error the callback throws at the first pair escapeMap does not hold
ReplaceEscapes(c) ==
  IF c = <<>> THEN [err |-> "none", val |-> <<>>]
  ELSE IF Len(c) >= 2 /\ c[1] = BACKSLASH /\ c[2] \notin LineTerminators
    THEN IF c[2] \in DOMAIN escapeMap
           THEN LET rest == ReplaceEscapes(SubSeq(c, 3, Len(c)))
                IN [err |-> rest.err, val |-> <<escapeMap[c[2]]>> \o rest.val]
           ELSE [err |-> "InvalidEscape", val |-> <<>>]
  ELSE LET rest == ReplaceEscapes(Tail(c))
       IN [err |-> rest.err, val |-> <<Head(c)>> \o rest.val]

\* token.slice(1, -1)
StripQuotes(token) == IF Len(token) <= 2 THEN <<>> ELSE SubSeq(token, 2, Len(token) - 1)

\* parseString without the test of the quotes: any token is taken as a key
parseStringAnyKey(token) ==
  IF token = UNDEFINED THEN [err |-> "TypeError", val |-> <<>>]
  ELSE IF token # <<>> /\ token[1] = QUOTE /\ token[Len(token)] = QUOTE
    THEN LET r == ReplaceEscapes(ReplaceUnicode(StripQuotes(token)))
         IN IF r.err # "none" THEN [err |-> r.err, val |-> <<>>] ELSE r
  ELSE [err |-> "none", val |-> token]

\* parseString applied to the token it reads, lines 290-305: the string or the error
parseString(token) ==
  IF token = UNDEFINED THEN [err |-> "TypeError", val |-> <<>>]
  ELSE IF token # <<>> /\ token[1] = QUOTE /\ token[Len(token)] = QUOTE
    THEN LET r == ReplaceEscapes(ReplaceUnicode(StripQuotes(token)))
         IN IF r.err # "none" THEN [err |-> r.err, val |-> <<>>] ELSE r
  ELSE [err |-> "KeysMustBeQuoted", val |-> <<>>]

\* token?.startsWith('"') && token?.endsWith('"'), line 181
IsQuoted(token) ==
  token # UNDEFINED /\ token # <<>> /\ token[1] = QUOTE /\ token[Len(token)] = QUOTE

\* primaryChecker that only asks for a first token
primaryCheckerAnyToken(toks) == TokAt(toks, 0) # UNDEFINED

\* primaryChecker(tokens), lines 124-131: TRUE, or it throws
primaryChecker(toks) == TokAt(toks, 0) = LBRACE \/ TokAt(toks, 0) = LBRACKET

\* RootCheck without the test for tokens left over
RootCheckDepthOnly(toks, idx, dep) == IF dep # 0 THEN "MismatchedBrackets" ELSE "none"

\* the post-parse validation of parseStack, lines 309-317
RootCheck(toks, idx, dep) ==
  IF idx < Len(toks) THEN "TrailingToken"
  ELSE IF dep # 0 THEN "MismatchedBrackets"
  ELSE "none"

\* DepthExceeded with the comparison off by one
DepthExceededStrict(dep) == dep > MAX_DEPTH

\* the depth check on entry to parseArray, lines 242-245, of the incremented depth
DepthExceeded(dep) == dep >= MAX_DEPTH

\* the trailing-comma test after the loop of parseObject and parseArray, lines 224, 268
TrailingComma(expecting, items) == expecting /\ Len(items) > 0

(***************************************************************************)
(* The inputs of a run.  A run either hands a text to generateStack and    *)
(* the tokens it returns to parseStack, as runTest does, or hands a token  *)
(* sequence to parseStack directly.                                        *)
(***************************************************************************)
MaxNest == 21
MaxTokLen == 4

RECURSIVE SeqsUpTo(_, _)
\* the sequences over S of length at most n
SeqsUpTo(S, n) ==
  IF n = 0 THEN {<<>>}
  ELSE LET shorter == SeqsUpTo(S, n - 1)
       IN shorter \cup {Append(q, c) : q \in {r \in shorter : Len(r) = n - 1}, c \in S}

KEY_A == <<QUOTE, "a", QUOTE>>
ONE == <<"1">>

\* nesting patterns: which container sits at level k (1 the root)
NestPatterns == {"arrays", "objects", "arrayFirst", "objectFirst"}

IsArrayLevel(pat, k) ==
  \/ pat = "arrays"
  \/ pat = "arrayFirst" /\ k % 2 = 1
  \/ pat = "objectFirst" /\ k % 2 = 0

RECURSIVE NestOpen(_, _, _)
\* the opening tokens of levels k..n: '[' for an array, '{' '"a"' ':' for an object
\* whose only entry holds the next level (the innermost container is empty)
NestOpen(pat, k, n) ==
  IF k > n THEN <<>>
  ELSE (IF IsArrayLevel(pat, k) THEN <<LBRACKET>>
        ELSE IF k = n THEN <<LBRACE>> ELSE <<LBRACE, KEY_A, COLON>>)
       \o NestOpen(pat, k + 1, n)

RECURSIVE NestClose(_, _)
\* the closing tokens of levels k..1
NestClose(pat, k) ==
  IF k = 0 THEN <<>>
  ELSE <<IF IsArrayLevel(pat, k) THEN RBRACKET ELSE RBRACE>> \o NestClose(pat, k - 1)

\* n containers nested in each other after the pattern
NestTokens(pat, n) == NestOpen(pat, 1, n) \o NestClose(pat, n)

RECURSIVE NestValue(_, _, _)
\* the value NestTokens(pat, n) writes, from level k inwards
NestValue(pat, k, n) ==
  IF IsArrayLevel(pat, k)
    THEN VArr(IF k = n THEN <<>> ELSE <<NestValue(pat, k + 1, n)>>)
    ELSE VObj(IF k = n THEN <<>> ELSE <<VEntry(<<"a">>, NestValue(pat, k + 1, n))>>)

TokAlphabet == {LBRACE, RBRACE, LBRACKET, RBRACKET, COMMA, COLON, KEY_A, ONE}

(***************************************************************************)
(* A standard encoder (JSON.stringify without indentation), to write the   *)
(* documents the runs are given: as text, and as the tokens of that text.  *)
(***************************************************************************)
DigitChar(d) ==
  CASE d = 0 -> "0" [] d = 1 -> "1" [] d = 2 -> "2" [] d = 3 -> "3" [] d = 4 -> "4"
    [] d = 5 -> "5" [] d = 6 -> "6" [] d = 7 -> "7" [] d = 8 -> "8" [] d = 9 -> "9"

RECURSIVE NatText(_)
NatText(n) == IF n < 10 THEN <<DigitChar(n)>> ELSE Append(NatText(n \div 10), DigitChar(n % 10))

RECURSIVE Zeros(_)
Zeros(k) == IF k <= 0 THEN <<>> ELSE <<"0">> \o Zeros(k - 1)

\* the text of the integer m * 10^e, e >= 0
NumberText(v) ==
  (IF v.m < 0 THEN <<"-">> ELSE <<>>) \o NatText(IF v.m < 0 THEN 0 - v.m ELSE v.m) \o Zeros(v.e)

EncodeChar(c) ==
  CASE c = QUOTE -> <<BACKSLASH, QUOTE>>
    [] c = BACKSLASH -> <<BACKSLASH, BACKSLASH>>
    [] c = "\n" -> <<BACKSLASH, "n">>
    [] c = "\t" -> <<BACKSLASH, "t">>
    [] c = "\r" -> <<BACKSLASH, "r">>
    [] c = "\f" -> <<BACKSLASH, "f">>
    [] c = BS -> <<BACKSLASH, "b">>
    [] OTHER -> <<c>>

RECURSIVE EncodeChars(_)
EncodeChars(s) == IF s = <<>> THEN <<>> ELSE EncodeChar(Head(s)) \o EncodeChars(Tail(s))

\* the JSON text of the string s
EncodeString(s) == <<QUOTE>> \o EncodeChars(s) \o <<QUOTE>>

RECURSIVE EncodeText(_)
RECURSIVE EncodeItems(_, _)
\* the JSON text of the value v
EncodeText(v) ==
  CASE v.t = "null" -> NULL_TOKEN
    [] v.t = "true" -> TRUE_TOKEN
    [] v.t = "false" -> FALSE_TOKEN
    [] v.t = "number" -> NumberText(v)
    [] v.t = "string" -> EncodeString(v.s)
    [] v.t = "array" -> <<"[">> \o EncodeItems(v.items, 1) \o <<"]">>
    [] v.t = "object" -> <<"{">> \o EncodeItems(v.items, 1) \o <<"}">>
    [] v.t = "entry" -> EncodeString(v.s) \o <<":">> \o EncodeText(v.items[1])

EncodeItems(items, k) ==
  IF k > Len(items) THEN <<>>
  ELSE (IF k > 1 THEN <<",">> ELSE <<>>) \o EncodeText(items[k]) \o EncodeItems(items, k + 1)

RECURSIVE EncodeTokens(_)
RECURSIVE EncodeItemTokens(_, _)
\* the tokens of the JSON text of v: each string with its escapes resolved
EncodeTokens(v) ==
  CASE v.t = "null" -> <<NULL_TOKEN>>
    [] v.t = "true" -> <<TRUE_TOKEN>>
    [] v.t = "false" -> <<FALSE_TOKEN>>
    [] v.t = "number" -> <<NumberText(v)>>
    [] v.t = "string" -> << <<QUOTE>> \o v.s \o <<QUOTE>> >>
    [] v.t = "array" -> <<LBRACKET>> \o EncodeItemTokens(v.items, 1) \o <<RBRACKET>>
    [] v.t = "object" -> <<LBRACE>> \o EncodeItemTokens(v.items, 1) \o <<RBRACE>>
    [] v.t = "entry" -> << <<QUOTE>> \o v.s \o <<QUOTE>>, COLON >> \o EncodeTokens(v.items[1])

EncodeItemTokens(items, k) ==
  IF k > Len(items) THEN <<>>
  ELSE (IF k > 1 THEN <<COMMA>> ELSE <<>>) \o EncodeTokens(items[k])
       \o EncodeItemTokens(items, k + 1)

\* q with x put before its element k
InsertBefore(q, k, x) == SubSeq(q, 1, k - 1) \o <<x>> \o SubSeq(q, k, Len(q))

\* the positions of the tokens that close a container holding at least one element
NonEmptyClosers(toks) ==
  {k \in 2..Len(toks) : toks[k] \in {RBRACE, RBRACKET} /\ toks[k - 1] \notin {LBRACE, LBRACKET}}

(***************************************************************************)
(* The documents, texts and token sequences the runs are given             *)
(***************************************************************************)
MaxWidth == 2
MaxStrLen == 2
MaxTailLen == 5
MaxRunLen == 2
MaxGap == 1

DocScalars == {VNum(1, 0), VStr(<<"a">>), VBool(TRUE), VNull}

DocInner ==
  DocScalars \cup {VArr(<<VNum(1, 0)>>), VObj(<<VEntry(<<"a">>, VNum(1, 0))>>)}

DocKeys == {<<"a">>, PROTO}

DistinctKeys(q) == \A j, k \in 1..Len(q) : j # k => q[j].s # q[k].s

\* value trees whose root is an array or an object
Docs ==
  {VArr(q) : q \in SeqsUpTo(DocInner, MaxWidth)}
  \cup {VObj(q) : q \in {r \in SeqsUpTo({VEntry(k, v) : k \in DocKeys, v \in DocInner}, MaxWidth) :
                          DistinctKeys(r)}}

StrAlphabet == {BACKSLASH, QUOTE, " ", "n"}

Strings == SeqsUpTo(StrAlphabet, MaxStrLen)

\* documents that hold one string, as an element, as a value and as a key
StringDocs ==
  {VArr(<<VStr(s)>>) : s \in Strings}
  \cup {VObj(<<VEntry(<<"a">>, VStr(s))>>) : s \in Strings}
  \cup {VObj(<<VEntry(s, VNum(1, 0))>>) : s \in Strings}

ExtraTokens == {ONE, RBRACKET, COMMA}

\* a document as written; with one comma put before the closing token of a
\* container that holds an element (commaAt the position); with one token after it
DocInputs ==
  UNION {{[family |-> "doc", v |-> v, commaAt |-> k, extra |-> <<>>,
           tokens |-> IF k = 0 THEN EncodeTokens(v)
                      ELSE InsertBefore(EncodeTokens(v), k, COMMA)] :
             k \in {0} \cup NonEmptyClosers(EncodeTokens(v))} : v \in Docs}
  \cup {[family |-> "doc", v |-> v, commaAt |-> 0, extra |-> <<x>>,
         tokens |-> Append(EncodeTokens(v), x)] : v \in Docs, x \in ExtraTokens}

\* a string literal that holds one escape: "[" quote pre backslash c tail, closed or not
EscapeChars == DOMAIN escapeMap \cup {"u", "x", "a", "0", " ", "\n"}

TailAlphabet == {"0", "1", "4", "x"}

EscapeText(pre, c, tail, closed) ==
  <<"[", QUOTE>> \o pre \o <<BACKSLASH, c>> \o tail
  \o (IF closed THEN <<QUOTE, "]">> ELSE <<>>)

EscapeInputs ==
  {[family |-> "escape", pre |-> pre, c |-> c, tail |-> tail, closed |-> closed,
    text |-> EscapeText(pre, c, tail, closed)] :
      pre \in {<<>>, <<"a">>}, c \in EscapeChars \ {"u"},
      tail \in SeqsUpTo(TailAlphabet, 1), closed \in BOOLEAN}
  \cup {[family |-> "escape", pre |-> <<"a">>, c |-> "u", tail |-> tail, closed |-> closed,
         text |-> EscapeText(<<"a">>, "u", tail, closed)] :
      tail \in SeqsUpTo(TailAlphabet, MaxTailLen), closed \in BOOLEAN}

\* unquoted literals around whitespace: "[" run gap run "]", and "[1]" gap run
RunAlphabet == {"1", "e"}

Runs == SeqsUpTo(RunAlphabet, MaxRunLen) \ {<<>>}

Gaps == SeqsUpTo(whitespaces, MaxGap)

LiteralInputs ==
  {[family |-> "literals", r1 |-> r1, gap |-> g, r2 |-> r2,
    text |-> <<"[">> \o r1 \o g \o r2 \o <<"]">>] :
      r1 \in Runs, g \in Gaps \ {<<>>}, r2 \in Runs}
  \cup {[family |-> "tail", r1 |-> <<>>, gap |-> g, r2 |-> r2,
         text |-> <<"[", "1", "]">> \o g \o r2] : g \in Gaps, r2 \in Runs}

RECURSIVE Flatten(_)
\* the concatenation of the sequences of q
Flatten(q) == IF q = <<>> THEN <<>> ELSE Head(q) \o Flatten(Tail(q))

\* texts that end inside a string: a prefix, a quote, then units none of which closes
\* the string (a character, an escaped quote, an escaped backslash), then possibly a
\* lone backslash
MaxUnits == 2

OpenUnits == {<<"a">>, <<" ">>, <<"]">>, <<BACKSLASH, QUOTE>>, <<BACKSLASH, BACKSLASH>>}

OpenPrefixes == {<<>>, <<"[">>, <<"{", QUOTE, "a", QUOTE, ":", " ">>}

OpenInputs ==
  {[family |-> "open", prefix |-> pre, units |-> u, dangling |-> d,
    text |-> pre \o <<QUOTE>> \o Flatten(u) \o (IF d THEN <<BACKSLASH>> ELSE <<>>)] :
      pre \in OpenPrefixes, u \in SeqsUpTo(OpenUnits, MaxUnits), d \in BOOLEAN}

\* one raw character inside a string of an array, given by its code unit, between
\* two paddings
MaxPad == 1

InStringCodes == {0, 8, 9, 10, 11, 12, 13, 31, 32, 97, 160}

InStringInputs ==
  {[family |-> "inString", code |-> n, pre |-> a, post |-> b,
    text |-> <<"[", QUOTE>> \o a \o <<FromCharCode(n)>> \o b \o <<QUOTE, "]">>] :
      n \in InStringCodes, a \in SeqsUpTo({"a", " "}, MaxPad),
      b \in SeqsUpTo({"a", " "}, MaxPad)}

\* an array whose content is a run of characters trim() removes but the tokenizer
\* does not skip, and digits
MaxTrimLen == 2

TrimAlphabet == {"\f", VT, NBSP, "1"}

TrimInputs ==
  {[family |-> "trim", run |-> r, text |-> <<"[">> \o r \o <<"]">>] :
      r \in SeqsUpTo(TrimAlphabet, MaxTrimLen) \ {<<>>}}

\* texts joined by whitespace: the parts, each also an input of its own, and every
\* join of two parts by a non-empty gap
JoinPartsClosed ==
  {<<"[", "1", "]">>, <<"[", "]">>, <<"{", QUOTE, "a", QUOTE, ":", "1", "}">>,
   <<"[", QUOTE, "a", " ", "b", QUOTE, "]">>, <<" ", "[", "1", "]", " ">>}

JoinPartsTail == {<<"[", "1", "]", " ", "1">>, <<"[", "]", "1">>}

JoinParts == JoinPartsClosed \cup JoinPartsTail

JoinInputs ==
  {[family |-> "part", text |-> a] : a \in JoinParts}
  \cup {[family |-> "join", a |-> a, gap |-> g, b |-> b, text |-> a \o g \o b] :
           a \in JoinParts, g \in Gaps \ {<<>>}, b \in JoinParts}

NoValue == [t |-> "none", m |-> 0, e |-> 0, s |-> <<>>, items |-> <<>>]

(***************************************************************************)
(* State                                                                   *)
(***************************************************************************)
VARIABLES
  input,    \* what the run was given: the family of the input and what it was built from
  data,     \* the text handed to generateStack (empty when tokens are handed in)
  tokens,   \* the token array handed to parseStack
  pc,       \* "tokenize", "start", "value", "loop", "done", "error"
  index,    \* parseStack's cursor into tokens
  depth,    \* parseStack's nesting counter
  frames,   \* the activations of parseObject and parseArray, outermost first
  result,   \* the value parseStack returned
  err       \* the error thrown

vars == <<input, data, tokens, pc, index, depth, frames, result, err>>

Frame(kind) == [kind |-> kind, expecting |-> TRUE, items |-> <<>>, key |-> <<>>]

Top == frames[Len(frames)]

SetTop(f) == [frames EXCEPT ![Len(frames)] = f]

Pop == SubSeq(frames, 1, Len(frames) - 1)

\* objects that repeat one key: reps entries key:1, key:2, ... in token order, with
\* an entry of another key after the first one when other is set
MaxReps == 3

DupKeys == {<<"a">>, PROTO}

KEY_B == <<QUOTE, "b", QUOTE>>

RECURSIVE DupEntries(_, _, _)
DupEntries(key, from, to) ==
  IF from > to THEN <<>>
  ELSE <<COMMA, EncodeString(key), COLON, NatText(from)>> \o DupEntries(key, from + 1, to)

DupInputs ==
  {[family |-> "dups", key |-> k, reps |-> n, other |-> o,
    tokens |-> <<LBRACE, EncodeString(k), COLON, ONE>>
               \o (IF o THEN <<COMMA, KEY_B, COLON, <<"0">> >> ELSE <<>>)
               \o DupEntries(k, 2, n) \o <<RBRACE>>] :
      k \in DupKeys, n \in 2..MaxReps, o \in BOOLEAN}

\* what may follow the opening brace of an object: every short sequence of keys,
\* separators, scalars, bare words and brackets
MaxEntryLen == 3

BARE_WORD == <<"x">>

EntryAlphabet ==
  {KEY_A, COLON, COMMA, RBRACE, LBRACE, LBRACKET, ONE, TRUE_TOKEN, FALSE_TOKEN,
   NULL_TOKEN, BARE_WORD}

EntryInputs ==
  {[family |-> "entry", tokens |-> <<LBRACE>> \o q] :
      q \in SeqsUpTo(EntryAlphabet, MaxEntryLen)}

\* an array of one unquoted token made of the characters of numbers
MaxNumLen == 4

NumAlphabet == {"0", "1", "-", "+", ".", "e", "E"}

NumberInputs ==
  {[family |-> "number", token |-> t, tokens |-> <<LBRACKET, t, RBRACKET>>] :
      t \in SeqsUpTo(NumAlphabet, MaxNumLen) \ {<<>>}}

\* token sequences cut short: every proper prefix of two documents, so that the
\* containers open at the cut are never closed
PrefixDocs ==
  {<<LBRACE, KEY_A, COLON, ONE, COMMA, KEY_A, COLON, LBRACKET, ONE, COMMA, LBRACE,
     RBRACE, RBRACKET, RBRACE>>,
   <<LBRACKET, ONE, COMMA, LBRACKET, RBRACKET, COMMA, LBRACE, KEY_A, COLON,
     NULL_TOKEN, RBRACE, RBRACKET>>}

PrefixInputs ==
  UNION {{[family |-> "prefix", tokens |-> SubSeq(d, 1, k)] : k \in 1..(Len(d) - 1)} :
           d \in PrefixDocs}

TokenInputs ==
  {[family |-> "nest", pattern |-> pat, n |-> n, tokens |-> NestTokens(pat, n)] :
      pat \in NestPatterns, n \in 1..MaxNest}
  \cup {[family |-> "tokens", tokens |-> q] : q \in SeqsUpTo(TokAlphabet, MaxTokLen)}
  \cup DocInputs
  \cup DupInputs
  \cup EntryInputs
  \cup NumberInputs
  \cup PrefixInputs

\* the documents whose keys assignment stores as own properties
PlainDocs == {v \in Docs : \A k \in 1..Len(v.items) : v.items[k].s # PROTO}

TextInputs ==
  {[family |-> "text", v |-> v, text |-> EncodeText(v)] : v \in PlainDocs \cup StringDocs}
  \cup EscapeInputs
  \cup LiteralInputs
  \cup OpenInputs
  \cup InStringInputs
  \cup TrimInputs
  \cup JoinInputs

TokenFamilies == {"nest", "tokens", "doc", "dups", "entry", "number", "prefix"}

Init ==
  /\ input \in TokenInputs \cup TextInputs
  /\ data = (IF input.family \in TokenFamilies THEN <<>> ELSE input.text)
  /\ tokens = (IF input.family \in TokenFamilies THEN input.tokens ELSE <<>>)
  /\ pc = (IF input.family \in TokenFamilies THEN "start" ELSE "tokenize")
  /\ index = 0
  /\ depth = 0
  /\ frames = <<>>
  /\ result = NoValue
  /\ err = "none"

(***************************************************************************)
(* Steps                                                                   *)
(***************************************************************************)
\* a throw: the call ends with the error, the cursor and the counter where they were
Throw(e, idx, dep) ==
  /\ pc' = "error"
  /\ err' = e
  /\ index' = idx
  /\ depth' = dep
  /\ UNCHANGED <<input, data, tokens, frames, result>>

\* a return that leaves the cursor on the last token of the value it returns
ReturnRewinds(v, idx, dep, frs) ==
  IF frs = <<>>
    THEN LET e == RootCheck(tokens, idx, dep)
         IN /\ pc' = (IF e = "none" THEN "done" ELSE "error")
            /\ err' = e
            /\ result' = (IF e = "none" THEN v ELSE NoValue)
            /\ index' = idx - 1
            /\ depth' = dep
            /\ frames' = frs
            /\ UNCHANGED <<input, data, tokens>>
    ELSE LET f == frs[Len(frs)]
             g == [f EXCEPT !.expecting = FALSE,
                            !.items = IF f.kind = "object" THEN ObjPut(@, f.key, v)
                                      ELSE Append(@, v)]
         IN /\ pc' = "loop"
            /\ frames' = [frs EXCEPT ![Len(frs)] = g]
            /\ index' = idx - 1
            /\ depth' = dep
            /\ UNCHANGED <<input, data, tokens, result, err>>

\* parseValue returns v to its caller: the loop of the enclosing array or object,
\* or parseStack itself, which validates and returns (lines 307-319)
Return(v, idx, dep, frs) ==
  IF frs = <<>>
    THEN LET e == RootCheck(tokens, idx, dep)
         IN /\ pc' = (IF e = "none" THEN "done" ELSE "error")
            /\ err' = e
            /\ result' = (IF e = "none" THEN v ELSE NoValue)
            /\ index' = idx
            /\ depth' = dep
            /\ frames' = frs
            /\ UNCHANGED <<input, data, tokens>>
    ELSE LET f == frs[Len(frs)]
             g == [f EXCEPT !.expecting = FALSE,
                            !.items = IF f.kind = "object" THEN ObjPut(@, f.key, v)
                                      ELSE Append(@, v)]
         IN /\ pc' = "loop"
            /\ frames' = [frs EXCEPT ![Len(frs)] = g]
            /\ index' = idx
            /\ depth' = dep
            /\ UNCHANGED <<input, data, tokens, result, err>>

\* runTest line 37: generateStack(data); its tokens go to parseStack, its error ends the run
Tokenize ==
  /\ pc = "tokenize"
  /\ LET r == generateStack(data)
     IN /\ tokens' = r.stack
        /\ err' = r.err
        /\ pc' = (IF r.err = "none" THEN "start" ELSE "error")
  /\ UNCHANGED <<input, data, index, depth, frames, result>>

\* parseStack lines 149-153: the cursor and counter, then primaryChecker
Start ==
  /\ pc = "start"
  /\ IF primaryChecker(tokens)
       THEN /\ pc' = "value"
            /\ UNCHANGED <<input, data, tokens, index, depth, frames, result, err>>
       ELSE Throw("RootNotContainer", index, depth)

\* parseValue, lines 162-186, with the entry of parseObject (196-199) and of
\* parseArray (242-249) it calls
ParseValue ==
  /\ pc = "value"
  /\ LET token == TokAt(tokens, index)
     IN IF token = LBRACE
          THEN /\ frames' = Append(frames, Frame("object"))
               /\ index' = index + 1
               /\ pc' = "loop"
               /\ UNCHANGED <<input, data, tokens, depth, result, err>>
        ELSE IF token = LBRACKET
          THEN IF DepthExceeded(depth + 1)
                 THEN Throw("MaxDepth", index, depth + 1)
                 ELSE /\ frames' = Append(frames, Frame("array"))
                      /\ depth' = depth + 1
                      /\ index' = index + 1
                      /\ pc' = "loop"
                      /\ UNCHANGED <<input, data, tokens, result, err>>
        ELSE IF token = TRUE_TOKEN THEN Return(VBool(TRUE), index + 1, depth, frames)
        ELSE IF token = FALSE_TOKEN THEN Return(VBool(FALSE), index + 1, depth, frames)
        ELSE IF token = NULL_TOKEN THEN Return(VNull, index + 1, depth, frames)
        ELSE IF IsNumberToken(token) THEN Return(ParseFloat(token), index + 1, depth, frames)
        ELSE IF IsQuoted(token)
          THEN LET r == parseString(token)
               IN IF r.err # "none" THEN Throw(r.err, index + 1, depth)
                  ELSE Return(VStr(r.val), index + 1, depth, frames)
        ELSE Throw("UnexpectedToken", index, depth)

\* parseObject: one test of the loop condition, then either one iteration
\* (lines 201-222) or the code after the loop (224-231)
ObjectStep ==
  /\ pc = "loop"
  /\ Top.kind = "object"
  /\ LET token == TokAt(tokens, index)
     IN IF token = RBRACE
          THEN IF TrailingComma(Top.expecting, Top.items)
                 THEN Throw("TrailingCommaObject", index, depth)
                 ELSE Return(VObj(Top.items), index + 1, depth, Pop)
        ELSE IF Top.expecting
          THEN IF token = COMMA THEN Throw("UnexpectedComma", index, depth)
               ELSE LET r == parseString(token)
                    IN IF r.err # "none" THEN Throw(r.err, index + 1, depth)
                       ELSE IF TokAt(tokens, index + 1) # COLON
                         THEN Throw("ExpectedColon", index + 1, depth)
                       ELSE /\ frames' = SetTop([Top EXCEPT !.key = r.val])
                            /\ index' = index + 2
                            /\ pc' = "value"
                            /\ UNCHANGED <<input, data, tokens, depth, result, err>>
        ELSE IF token = COMMA
          THEN /\ frames' = SetTop([Top EXCEPT !.expecting = TRUE])
               /\ index' = index + 1
               /\ UNCHANGED <<input, data, tokens, pc, depth, result, err>>
        ELSE Throw("ExpectedCommaOrBrace", index, depth)

\* parseArray: one test of the loop condition, then either one iteration
\* (lines 251-266) or the code after the loop (268-281)
ArrayStep ==
  /\ pc = "loop"
  /\ Top.kind = "array"
  /\ LET token == TokAt(tokens, index)
     IN IF token = RBRACKET
          THEN IF TrailingComma(Top.expecting, Top.items)
                 THEN Throw("TrailingCommaArray", index, depth)
               ELSE IF depth - 1 < 0
                 THEN Throw("UnexpectedClosingBracket", index + 1, depth - 1)
               ELSE Return(VArr(Top.items), index + 1, depth - 1, Pop)
        ELSE IF Top.expecting
          THEN IF token = COMMA THEN Throw("UnexpectedComma", index, depth)
               ELSE /\ pc' = "value"
                    /\ UNCHANGED <<input, data, tokens, index, depth, frames, result, err>>
        ELSE IF token = COMMA
          THEN /\ frames' = SetTop([Top EXCEPT !.expecting = TRUE])
               /\ index' = index + 1
               /\ UNCHANGED <<input, data, tokens, pc, depth, result, err>>
        ELSE Throw("ExpectedCommaOrBracket", index, depth)

Next == Tokenize \/ Start \/ ParseValue \/ ObjectStep \/ ArrayStep

Spec == Init /\ [][Next]_vars

\* parseStack called on its own with a token sequence
FairFamilies == {"prefix", "nest", "entry"}

ParseInit == Init /\ input.family \in FairFamilies

ParseNext == Start \/ ParseValue \/ ObjectStep \/ ArrayStep

\* a call runs to completion: JavaScript executes the next statement of the running
\* call, nothing preempts or cancels it
FairSpec == ParseInit /\ [][ParseNext]_vars /\ WF_vars(ParseNext)

Finished == pc \in {"done", "error"}

TextFamilies ==
  {"text", "escape", "literals", "tail", "open", "inString", "trim", "part", "join"}

LexErrors == {"InvalidUnicodeEscape", "IllegalEscape", "ControlCharacter", "UnterminatedString"}

\* parseStack was called: generateStack returned the tokens, or they were handed in
ParserCalled == pc # "tokenize" /\ err \notin LexErrors

(***************************************************************************)
(* Claims                                                                  *)
(***************************************************************************)

\* C1: n arrays nested in each other parse when n <= 19 and fail with the
\* maximum-nesting-depth error when n >= 20; the error is raised on entry to the
\* 20th array, with the cursor still on its '[' and 19 arrays open.
C1_ArrayDepthBoundary ==
  (Finished /\ input.family = "nest" /\ input.pattern = "arrays") =>
    IF input.n <= 19
      THEN pc = "done" /\ result = NestValue("arrays", 1, input.n)
      ELSE pc = "error" /\ err = "MaxDepth" /\ index = 19 /\ Len(frames) = 19

C1_Witness ==
  /\ input.family = "nest" /\ input.pattern = "arrays" /\ input.n = 20
  /\ pc = "error" /\ err = "MaxDepth"

\* C2 (as claimed): containers nested 20 or more levels deep fail with the
\* maximum-nesting-depth error whether they are arrays, objects or a mix.
C2_ObjectsCountTowardDepth ==
  (Finished /\ input.family = "nest" /\ input.n >= 20) =>
    (pc = "error" /\ err = "MaxDepth")

\* C3 (as claimed): a document with a comma put before the closing token of a
\* container that holds an element fails with the trailing-comma error, and the
\* document without that comma parses.
C3_TrailingCommaRejected ==
  (Finished /\ input.family = "doc" /\ input.extra = <<>>) =>
    IF input.commaAt = 0
      THEN pc = "done"
      ELSE pc = "error" /\ err \in {"TrailingCommaObject", "TrailingCommaArray"}

\* C4: when the first token is neither '{' nor '[' (or there is no token),
\* parseStack fails with the root error before it parses anything; no scalar is
\* ever returned as the result.
C4_RootRestriction ==
  /\ (ParserCalled /\ pc # "start"
        /\ (tokens = <<>> \/ tokens[1] \notin {LBRACE, LBRACKET})) =>
       (/\ pc = "error" /\ err = "RootNotContainer"
        /\ index = 0 /\ frames = <<>> /\ result = NoValue)
  /\ pc = "done" => result.t \in {"object", "array"}

C4_Witness ==
  pc = "error" /\ err = "RootNotContainer" /\ tokens = <<KEY_A>>

\* C5: whenever parseStack returns a value every token was consumed; a document
\* followed by one more token fails with the trailing-token error, the cursor on
\* that token.
C5_RootCompletion ==
  /\ pc = "done" => index = Len(tokens)
  /\ (pc = "error" /\ err = "TrailingToken") => (index < Len(tokens) /\ frames = <<>>)
  /\ (Finished /\ input.family = "doc" /\ input.extra # <<>>) =>
       (pc = "error" /\ err = "TrailingToken" /\ index = Len(tokens) - 1)

C5_Witness ==
  /\ input.family = "doc" /\ input.extra = <<ONE>>
  /\ pc = "error" /\ err = "TrailingToken"

\* C6 (as claimed): two runs of literal characters with whitespace between them
\* come out of generateStack as two tokens.
C6_WhitespaceSeparatesLiterals ==
  (pc # "tokenize" /\ input.family = "literals") =>
    tokens = <<LBRACKET, input.r1, input.r2, RBRACKET>>

\* C7 (as claimed): a literal still in the buffer when the text ends is the last
\* token, so "[1]" followed by a literal is rejected by the pipeline.
C7_LiteralFlushedAtEnd ==
  (pc # "tokenize" /\ input.family = "tail") =>
    /\ tokens = <<LBRACKET, ONE, RBRACKET, input.r2>>
    /\ Finished => pc = "error"

\* C8 (as claimed): parseString returns the content of every string token the
\* tokenizer emits with only its two quotes removed.
C8_ParseStringStripsQuotesOnly ==
  (/\ Finished /\ ParserCalled /\ input.family \in TextFamilies
   /\ Len(tokens) = 3 /\ tokens[1] = LBRACKET /\ tokens[3] = RBRACKET
   /\ IsQuoted(tokens[2]) /\ Len(tokens[2]) >= 2) =>
    (pc = "done" /\ result = VArr(<<VStr(StripQuotes(tokens[2]))>>))

\* C9 (as claimed): the text a standard encoder writes for a document parses
\* back to that document.
C9_RoundTrip ==
  (Finished /\ input.family = "text") => (pc = "done" /\ result = input.v)

\* the token of the string literal of an escape input, given the characters its
\* escape contributes and the rest of the tail
C10_Token(contributed, rest) ==
  <<LBRACKET, <<QUOTE>> \o input.pre \o contributed \o rest \o <<QUOTE>>, RBRACKET>>

C10_Mapped(c) ==
  CASE c = "n" -> "\n" [] c = "t" -> "\t" [] c = "b" -> BS [] c = "r" -> "\r"
    [] c = "f" -> "\f" [] c = BACKSLASH -> BACKSLASH [] c = QUOTE -> QUOTE [] c = "/" -> "/"

\* C10: in a string, a backslash and one of n t b r f \ " / contribute the one
\* mapped character; a backslash and u consume the next 4 characters and
\* contribute the character of that hexadecimal code, failing when fewer than 4
\* remain or one is no hex digit; a backslash and anything else fails with the
\* illegal-escape error; a failure returns no tokens.
C10_EscapeResolution ==
  (pc # "tokenize" /\ input.family = "escape") =>
    IF input.c \in {"n", "t", "b", "r", "f", BACKSLASH, QUOTE, "/"}
      THEN IF input.closed
             THEN err \notin LexErrors
                  /\ tokens = C10_Token(<<C10_Mapped(input.c)>>, input.tail)
             ELSE pc = "error" /\ err = "UnterminatedString" /\ tokens = <<>>
    ELSE IF input.c = "u"
      THEN IF Len(input.tail) >= 4 /\ \A k \in 1..4 : input.tail[k] \in HexDigits
             THEN IF input.closed
                    THEN /\ err \notin LexErrors
                         /\ tokens = C10_Token(
                              <<FromCharCode(ParseInt16(SubSeq(input.tail, 1, 4)))>>,
                              SubSeq(input.tail, 5, Len(input.tail)))
                         /\ SubSeq(input.tail, 1, 4) = <<"0", "0", "4", "1">> =>
                              tokens[2][Len(input.pre) + 2] = "A"
                    ELSE pc = "error" /\ err = "UnterminatedString" /\ tokens = <<>>
             ELSE pc = "error" /\ err = "InvalidUnicodeEscape" /\ tokens = <<>>
    ELSE pc = "error" /\ err = "IllegalEscape" /\ tokens = <<>>

C10_Witness ==
  /\ input.family = "escape" /\ input.c = "u" /\ input.closed
  /\ input.tail = <<"0", "0", "4", "1", "x">>
  /\ pc = "done" /\ result = VArr(<<VStr(<<"a", "A", "x">>)>>)

\* C11: a text that ends while a string literal is open (also when its last quote
\* is escaped, or a backslash is its last character) makes generateStack fail with
\* the unterminated-string error; no tokens are returned and parseStack is not called.
C11_UnterminatedString ==
  input.family = "open" =>
    /\ pc \in {"tokenize", "error"}
    /\ pc = "error" =>
         (/\ err = "UnterminatedString" /\ tokens = <<>>
          /\ index = 0 /\ depth = 0 /\ frames = <<>> /\ result = NoValue)

C11_Witness ==
  /\ input.family = "open"
  /\ input.text = <<"{", QUOTE, "a", QUOTE, ":", " ", QUOTE, "a", BACKSLASH, QUOTE>>
  /\ pc = "error" /\ err = "UnterminatedString"

\* the string token of an inString input whose raw character is kept where it stands
InStringToken == <<QUOTE>> \o input.pre \o <<FromCharCode(input.code)>> \o input.post \o <<QUOTE>>

C13_ControlCharactersRejected ==
  (input.family = "inString" /\ input.code \in 0..31 /\ pc # "tokenize") =>
    /\ pc = "error" /\ err = "ControlCharacter"
    /\ tokens = <<>> /\ index = 0 /\ frames = <<>> /\ result = NoValue

C13_Witness ==
  /\ input.family = "inString" /\ input.code = 31 /\ input.pre = <<"a">>
  /\ pc = "error" /\ err = "ControlCharacter" /\ tokens = <<>>

\* the positions of the entries of the parsed object that carry the repeated key
DupPositions == {k \in 1..Len(result.items) : result.items[k].s = input.key}

\* C14: an object whose tokens repeat a key parses successfully, and the result has
\* exactly one entry for that key, holding the value of the last occurrence, for
\* every number of repetitions.
C14_DuplicateKeysKeepLast ==
  (input.family = "dups" /\ Finished) =>
    /\ pc = "done" /\ result.t = "object"
    /\ Cardinality(DupPositions) = 1
    /\ \A k \in DupPositions : result.items[k].items[1] = VNum(input.reps, 0)

\* what holds of every repeated key whose assignment creates an own property
C14_OrdinaryKeysKeepLast ==
  (input.family = "dups" /\ input.key # PROTO) => C14_DuplicateKeysKeepLast

\* token begins and ends with a double quote
C15_Quoted(token) == Len(token) >= 1 /\ token[1] = QUOTE /\ token[Len(token)] = QUOTE

\* the tokens the claim names as keys that are not strings
C15_NonKeys ==
  {ONE, TRUE_TOKEN, FALSE_TOKEN, NULL_TOKEN, BARE_WORD, LBRACKET, LBRACE, COLON}

\* C15: one iteration of the object loop.  Expecting a key: a comma fails with the
\* unexpected-comma error; a number, true, false, null, a bare word, '[', '{' or
\* ':' fails with the keys-must-be-quoted error; a quoted key not followed at once
\* by ':' fails, and one followed by ':' goes on to its value.  After a key-value
\* pair: ',' and '}' are accepted, every other token (the end of the tokens too)
\* fails with the expected-comma-or-brace error.
C15_ObjectEntryGrammar ==
  [][(pc = "loop" /\ Top.kind = "object") =>
       LET token == TokAt(tokens, index)
           next == TokAt(tokens, index + 1)
       IN /\ (Top.expecting /\ token = COMMA) =>
               (pc' = "error" /\ err' = "UnexpectedComma")
          /\ (Top.expecting /\ token \in C15_NonKeys) =>
               (pc' = "error" /\ err' = "KeysMustBeQuoted")
          /\ (Top.expecting /\ C15_Quoted(token) /\ next # COLON) =>
               (pc' = "error" /\ err' = "ExpectedColon")
          /\ (Top.expecting /\ token = KEY_A /\ next = COLON) =>
               (pc' = "value" /\ index' = index + 2 /\ err' = "none")
          /\ (~Top.expecting /\ token = COMMA) =>
               (pc' = "loop" /\ index' = index + 1 /\ err' = "none"
                /\ frames'[Len(frames')].expecting)
          /\ (~Top.expecting /\ token = RBRACE) =>
               (index' = index + 1 /\ err' # "ExpectedCommaOrBrace")
          /\ (~Top.expecting /\ token \notin {COMMA, RBRACE}) =>
               (pc' = "error" /\ err' = "ExpectedCommaOrBrace")]_vars

C15_Witness ==
  /\ input.family = "entry" /\ tokens = <<LBRACE, TRUE_TOKEN, COLON, ONE>>
  /\ pc = "error" /\ err = "KeysMustBeQuoted" /\ Top.kind = "object" /\ Top.expecting

C16_AllDigits(s) == \A i \in 1..Len(s) : s[i] \in Digits

\* 0|[1-9]digits
C16_Int(s) == s = <<"0">> \/ (Len(s) >= 1 /\ s[1] \in Digits \ {"0"} /\ C16_AllDigits(s))

\* (.digits)?
C16_Frac(s) == s = <<>> \/ (Len(s) >= 2 /\ s[1] = "." /\ C16_AllDigits(Tail(s)))

\* ([eE][+-]?digits)?
C16_Exp(s) ==
  \/ s = <<>>
  \/ /\ Len(s) >= 2 /\ s[1] \in {"e", "E"}
     /\ \/ C16_AllDigits(Tail(s))
        \/ Len(s) >= 3 /\ s[2] \in {"+", "-"} /\ C16_AllDigits(Tail(Tail(s)))

\* the whole of t is a sign, an integer part, a fraction and an exponent
C16_Matches(t) ==
  \E a \in {0, 1} : \E b \in a..Len(t) : \E c \in b..Len(t) :
    /\ a = 1 => (Len(t) >= 1 /\ t[1] = "-")
    /\ C16_Int(SubSeq(t, a + 1, b))
    /\ C16_Frac(SubSeq(t, b + 1, c))
    /\ C16_Exp(SubSeq(t, c + 1, Len(t)))

\* the tokens the claim names as rejected: 01, -01, 00, +1, -, 1. and 1e
C16_Named ==
  {<<"0", "1">>, <<"-", "0", "1">>, <<"0", "0">>, <<"+", "1">>, <<"-">>,
   <<"1", ".">>, <<"1", "e">>}

\* C16: an unquoted token is converted to a number exactly when the whole of it
\* matches -?(0|[1-9]digits)(.digits)?([eE][+-]?digits)?; every other token, so each
\* of 01, -01, 00, +1, -, 1. and 1e, is rejected with the unexpected-token error and
\* no value is returned.
C16_NumericTokens ==
  (input.family = "number" /\ Finished) =>
    /\ C16_Matches(input.token) =>
         (pc = "done" /\ result.t = "array" /\ Len(result.items) = 1
          /\ result.items[1].t = "number")
    /\ ~C16_Matches(input.token) =>
         (pc = "error" /\ err = "UnexpectedToken" /\ result = NoValue)
    /\ input.token \in C16_Named => (pc = "error" /\ err = "UnexpectedToken")

C16_Witness ==
  /\ input.family = "number" /\ input.token = <<"-", "0", "1">>
  /\ pc = "error" /\ err = "UnexpectedToken" /\ index = 1

\* C17: every token of a sequence generateStack returns is one of the six
\* structural characters or a non-empty string; no empty token is emitted, also
\* when form feed, vertical tab or non-breaking space stand outside a string.
C17_NoEmptyToken ==
  (input.family \in TextFamilies /\ pc # "tokenize" /\ err \notin LexErrors) =>
    \A k \in 1..Len(tokens) :
      \/ tokens[k] \in {<<c>> : c \in structuralToken}
      \/ Len(tokens[k]) >= 1

\* what holds when none of form feed, vertical tab and non-breaking space stands
\* outside a string
C17_NoEmptyTokenOtherwise ==
  input.family # "trim" => C17_NoEmptyToken

\* every part of a join is a text that generateStack and then parseStack accept
C18_PartsAccepted == (input.family = "part" /\ Finished) => pc = "done"

\* C18: for two texts A and B that generateStack followed by parseStack accept and a
\* non-empty whitespace string w, generateStack(A + w + B) is generateStack(A)
\* followed by generateStack(B).
C18_WhitespaceJoin ==
  (input.family = "join" /\ pc # "tokenize") =>
    /\ err \notin LexErrors
    /\ tokens = generateStack(input.a).stack \o generateStack(input.b).stack

\* what holds when A does not end in a literal outside its root container
C18_WhitespaceJoinClosed ==
  (input.family = "join" /\ input.a \in JoinPartsClosed) => C18_WhitespaceJoin

\* what every step of parseStack does to the cursor: it never moves backwards; a
\* call of parseValue fails or advances it; a test of a container loop fails,
\* advances it, or (an array expecting an element) hands the same token to
\* parseValue; with the cursor past the last token the step fails, at once or in
\* that call of parseValue
C19_Progress ==
  [][/\ index' >= index
     /\ pc = "value" => (pc' = "error" \/ index' = index + 1)
     /\ pc = "loop" =>
          \/ pc' = "error"
          \/ index' > index
          \/ pc' = "value" /\ index' = index /\ Top.kind = "array" /\ Top.expecting
     /\ (pc \in {"value", "loop"} /\ index >= Len(tokens)) =>
          \/ pc' = "error"
          \/ pc = "loop" /\ pc' = "value" /\ index' = index]_vars

\* C19: parseStack finishes on every token sequence, with a value or an error, also
\* when an object or array is never closed: every iteration of a container loop
\* advances the cursor or fails, the cursor never moves backwards, and past the
\* last token the parse fails instead of looping.
C19_Termination ==
  /\ C19_Progress
  /\ <>Finished
  /\ [](input.family = "prefix" => <>(pc = "error"))

C19_Witness ==
  /\ input.family = "prefix" /\ tokens = <<LBRACE, KEY_A, COLON, ONE, COMMA>>
  /\ pc = "error" /\ index >= Len(tokens)
====
